---- MODULE Spec2Model ----
(***************************************************************************)
(* Zone state synchronisation of the Zigbee irrigation controller          *)
(* (src/src/main.cpp): the per-zone software safety timers, the Zigbee     *)
(* on/off mirror of every zone, the valve actuator, the first-connect      *)
(* shutdown, the status LED and the factory-reset button, driven by the    *)
(* polling loop and by the Zigbee stack's change callbacks.                *)
(*                                                                         *)
(* Time is the millisecond counter millis(), an unsigned fixed-width       *)
(* counter; here it counts coarse ticks modulo TimerModulus, and the       *)
(* 60 minute safety timeout is TimeoutTicks of them.                       *)
(***************************************************************************)
EXTENDS Integers, Sequences, FiniteSets

\* ------------------------------------------------------------- bounds
\* number of zones (NUM_ZONES, scaled down)
NumZones == 2
\* number of values of the wrapping counter millis() (2^32, scaled down)
TimerModulus == 5
\* SAFETY_TIMEOUT_MINUTES * 60 * 1000UL in ticks
TimeoutTicks == 2
\* the 500 ms blink interval in ticks
BlinkTicks == 1
\* the 5000 ms factory-reset hold time in ticks
HoldTicks == 2
\* network requests served in a run of LiveSpec
MaxRequests == 2
\* calls of Zigbee.factoryReset() counted during one press of the button
MaxFires == 2

Zones == 0 .. (NumZones - 1)
Ticks == 0 .. (TimerModulus - 1)
\* status codes of the actuator driver: 0 is success, 1 stands for any failure
ErrCodes == {0, 1}
\* half of the counter's range: the window of a signed difference
HalfRange == TimerModulus \div 2
\* elapsed time is counted up to here
ElapsedCap == TimeoutTicks + HalfRange
\* the value of a zone index that names no zone
NoZone == NumZones

VARIABLES
    now,                      \* millis()
    zoneSafetyOffTime,        \* per zone: the deadline, 0 = no timer
    lightState,               \* per zone: the Zigbee on/off attribute (the mirror)
    valveOpen,                \* per zone: the valve as the actuator last acknowledged it
    connected,                \* Zigbee.connected()
    initialShutdownComplete,  \* static flag of handleInitialShutdown
    currentLedState,          \* static of handleLedIndicator
    ledPin,                   \* level of LED_PIN
    ledTimer,                 \* static of handleLedIndicator
    buttonPin,                \* level of BUTTON_PIN
    isButtonBeingHeld,        \* static of handleFactoryResetButton
    buttonPressStartTime,     \* static of handleFactoryResetButton
    checking,                 \* the zone handleSafetyTimeout is at, between its test and its write; NoZone otherwise
    stage,                    \* where the main task is: in setup() before, in or after Zigbee.begin(), or in loop()
    wdtRegistered,            \* the main task is subscribed to the task watchdog
    elapsed,                  \* history: ticks since the zone's last successful start (TimedSpec only)
    dropped,                  \* history: the network was lost after the first-connect shutdown
    budget,                   \* history: network requests still to come (LiveSpec only)
    fired,                    \* history: calls of Zigbee.factoryReset() since the button was last up
    last,                     \* history: the step just taken
    events                    \* history: mirror writes and actuator commands of that step

vars == << now, zoneSafetyOffTime, lightState, valveOpen, connected,
           initialShutdownComplete, currentLedState, ledPin, ledTimer,
           buttonPin, isButtonBeingHeld, buttonPressStartTime, checking,
           stage, wdtRegistered, elapsed, dropped, budget, fired, last, events >>

\* ------------------------------------------------------------- helpers
Wrap(x) == x % TimerModulus

\* unsigned subtraction of two counter values
Since(t, t0) == (t - t0 + TimerModulus) % TimerModulus

LED_ON == "LOW"
LED_OFF == "HIGH"

Toggle(level) == IF level = "LOW" THEN "HIGH" ELSE "LOW"

Event(ev, zone, on, err, by) ==
    [ev |-> ev, zone |-> zone, on |-> on, err |-> err, by |-> by]

Note(op, index, state, err) ==
    [op |-> op, index |-> index, state |-> state, err |-> err]

\* the engine's state as one value, threaded through the handlers
Machine ==
    [timer |-> zoneSafetyOffTime, light |-> lightState, valve |-> valveOpen,
     since |-> elapsed, log |-> << >>,
     done |-> initialShutdownComplete,
     led |-> currentLedState, pin |-> ledPin, ledTimer |-> ledTimer,
     held |-> isButtonBeingHeld, pressStart |-> buttonPressStartTime,
     reboot |-> FALSE]

\* the Zigbee stack runs: Zigbee.begin() has been called
ZigbeeStarted == stage \in {"joining", "joined", "loop"}

\* ------------------------------------------------------------- watchdog
\* esp_task_wdt_add(NULL): the subscription of the main task after the call
esp_task_wdt_add(registered) == TRUE

\* variant: the task stays subscribed
esp_task_wdt_keep(registered) == registered

\* esp_task_wdt_delete(NULL): the subscription of the main task after the call
esp_task_wdt_delete(registered) == FALSE

\* esp_task_wdt_reset()
esp_task_wdt_reset(m) ==
    [m EXCEPT !.log = Append(@, Event("wdt", 0, FALSE, 0, "loop"))]

\* ------------------------------------------------------------- actuator
\* hunter.startZone(zoneNumber, SAFETY_TIMEOUT_MINUTES) answering err
startZone(m, index, err, by) ==
    LET l == [m EXCEPT !.log = Append(@, Event("cmd", index, TRUE, err, by))]
    IN  IF err = 0
        THEN [l EXCEPT !.valve[index] = TRUE, !.since[index] = 0]
        ELSE l

\* hunter.stopZone(zoneNumber) answering err
stopZone(m, index, err, by) ==
    LET l == [m EXCEPT !.log = Append(@, Event("cmd", index, FALSE, err, by))]
    IN  IF err = 0
        THEN [l EXCEPT !.valve[index] = FALSE, !.since[index] = 0]
        ELSE l

\* ------------------------------------------------------------- core logic
\* variant: the timeout is added without the counter's wraparound
StartDeadlineNoWrap(t) == t + TimeoutTicks

\* millis() + (SAFETY_TIMEOUT_MINUTES * 60 * 1000UL) in unsigned long
StartDeadline(t) == Wrap(t + TimeoutTicks)

\* variant: a start that fails is tried once more
handleZoneChangeRetriesStart(m, index, requestedState, err, t, by) ==
    IF requestedState
    THEN LET a == startZone(m, index, err, by)
         IN  IF err # 0
             THEN startZone(a, index, err, by)
             ELSE [a EXCEPT !.timer[index] = StartDeadline(t)]
    ELSE LET a == stopZone(m, index, err, by)
         IN  IF err # 0 THEN a ELSE [a EXCEPT !.timer[index] = 0]

\* variant: a successful start drops the timers of the other zones
handleZoneChangeExclusive(m, index, requestedState, err, t, by) ==
    IF requestedState
    THEN LET a == startZone(m, index, err, by)
         IN  IF err # 0
             THEN a
             ELSE [a EXCEPT !.timer = [j \in Zones |->
                                         IF j = index THEN StartDeadline(t) ELSE 0]]
    ELSE LET a == stopZone(m, index, err, by)
         IN  IF err # 0 THEN a ELSE [a EXCEPT !.timer[index] = 0]

\* variant: a failed stop clears the timer all the same
handleZoneChangeDropsTimer(m, index, requestedState, err, t, by) ==
    IF requestedState
    THEN LET a == startZone(m, index, err, by)
         IN  IF err # 0 THEN a ELSE [a EXCEPT !.timer[index] = Wrap(t + TimeoutTicks)]
    ELSE [stopZone(m, index, err, by) EXCEPT !.timer[index] = 0]

\* handleZoneChange(index, requestedState) at time t, the actuator answering err
handleZoneChange(m, index, requestedState, err, t, by) ==
    IF requestedState
    THEN LET a == startZone(m, index, err, by)
         IN  IF err # 0 THEN a ELSE [a EXCEPT !.timer[index] = StartDeadline(t)]
    ELSE LET a == stopZone(m, index, err, by)
         IN  IF err # 0 THEN a ELSE [a EXCEPT !.timer[index] = 0]

\* onZone##N(state)
onZone(m, index, state, err, t, by) ==
    handleZoneChange(m, index, state, err, t, by)

\* valves[i]->setLight(state): the attribute is written and the zone's
\* change callback runs
setLight(m, index, state, err, t, by) ==
    onZone([m EXCEPT !.light[index] = state,
                     !.log = Append(@, Event("write", index, state, 0, by))],
           index, state, err, t, by)

\* the stack serving a network write of the on/off attribute: the attribute
\* takes the requested value and the zone's change callback runs
zbAttributeSet(m, index, state, err, t) ==
    onZone([m EXCEPT !.light[index] = state], index, state, err, t, "network")

\* ------------------------------------------------------------- loop helpers
\* variant: only the zones believed running are written OFF
RECURSIVE ShutdownRunningFrom(_, _, _, _)
ShutdownRunningFrom(m, i, errs, t) ==
    IF i >= NumZones
    THEN m
    ELSE ShutdownRunningFrom(IF m.timer[i] # 0
                             THEN setLight(m, i, FALSE, errs[i], t, "shutdown")
                             ELSE m,
                             i + 1, errs, t)

\* the zones i .. NumZones-1 of the loop of handleInitialShutdown
RECURSIVE ShutdownFrom(_, _, _, _)
ShutdownFrom(m, i, errs, t) ==
    IF i >= NumZones
    THEN m
    ELSE ShutdownFrom(setLight(m, i, FALSE, errs[i], t, "shutdown"), i + 1, errs, t)

\* variant: the flag is never set
handleInitialShutdownNoFlag(m, conn, errs, t) ==
    IF conn /\ ~m.done
    THEN ShutdownFrom(m, 0, errs, t)
    ELSE m

\* handleInitialShutdown()
handleInitialShutdown(m, conn, errs, t) ==
    IF conn /\ ~m.done
    THEN [ShutdownFrom(m, 0, errs, t) EXCEPT !.done = TRUE]
    ELSE m

\* isAnyZoneActive()
isAnyZoneActive(m) == \E i \in Zones : m.timer[i] # 0

\* digitalWrite(LED_PIN, level)
digitalWrite(m, level) ==
    [m EXCEPT !.pin = level,
              !.log = Append(@, Event("led", 0, level = LED_ON, 0, "led"))]

\* variant: the LED is written in every evaluation while connected
handleLedIndicatorAlwaysWrites(m, conn, t) ==
    IF conn
    THEN IF isAnyZoneActive(m)
         THEN [digitalWrite(m, LED_ON) EXCEPT !.led = "ZONE_ACTIVE"]
         ELSE [digitalWrite(m, LED_OFF) EXCEPT !.led = "CONNECTED_IDLE"]
    ELSE LET b == IF m.led # "BLINKING" THEN [m EXCEPT !.led = "BLINKING"] ELSE m
         IN  IF Since(t, b.ledTimer) > BlinkTicks
             THEN [digitalWrite(b, Toggle(b.pin)) EXCEPT !.ledTimer = t]
             ELSE b

\* handleLedIndicator()
handleLedIndicator(m, conn, t) ==
    IF conn
    THEN IF isAnyZoneActive(m)
         THEN IF m.led # "ZONE_ACTIVE"
              THEN [digitalWrite(m, LED_ON) EXCEPT !.led = "ZONE_ACTIVE"]
              ELSE m
         ELSE IF m.led # "CONNECTED_IDLE"
              THEN [digitalWrite(m, LED_OFF) EXCEPT !.led = "CONNECTED_IDLE"]
              ELSE m
    ELSE LET b == IF m.led # "BLINKING" THEN [m EXCEPT !.led = "BLINKING"] ELSE m
         IN  IF Since(t, b.ledTimer) > BlinkTicks
             THEN [digitalWrite(b, Toggle(b.pin)) EXCEPT !.ledTimer = t]
             ELSE b

\* handleFactoryResetButton(); Zigbee.factoryReset() restarts the device
handleFactoryResetButton(m, pin, t) ==
    IF pin = "LOW"
    THEN IF ~m.held
         THEN [m EXCEPT !.held = TRUE, !.pressStart = t]
         ELSE IF Since(t, m.pressStart) > HoldTicks
              THEN [m EXCEPT !.reboot = TRUE]
              ELSE m
    ELSE IF m.held THEN [m EXCEPT !.held = FALSE] ELSE m

\* the test of handleSafetyTimeout: millis() >= zoneSafetyOffTime[i]
TimerExpired(t, deadline) == t >= deadline

\* variant: the check stops the zone itself and then writes the mirror
SafetyCheckStopsItself(m, i, err, t) ==
    IF m.timer[i] # 0 /\ t >= m.timer[i]
    THEN setLight(stopZone(m, i, err, "safety"), i, FALSE, err, t, "safety")
    ELSE m

\* the body of the loop of handleSafetyTimeout for zone i
SafetyCheck(m, i, err, t) ==
    IF m.timer[i] # 0 /\ TimerExpired(t, m.timer[i])
    THEN setLight(m, i, FALSE, err, t, "safety")
    ELSE m

\* the zones 0 .. n-1 of the loop of handleSafetyTimeout
RECURSIVE SafetyBefore(_, _, _, _)
SafetyBefore(m, n, errs, t) ==
    IF n = 0
    THEN m
    ELSE SafetyCheck(SafetyBefore(m, n - 1, errs, t), n - 1, errs[NumZones + n - 1], t)

\* the zones i .. NumZones-1 of the loop of handleSafetyTimeout
RECURSIVE SafetyFrom(_, _, _, _)
SafetyFrom(m, i, errs, t) ==
    IF i >= NumZones
    THEN m
    ELSE SafetyFrom(SafetyCheck(m, i, errs[NumZones + i], t), i + 1, errs, t)

\* handleSafetyTimeout()
handleSafetyTimeout(m, errs, t) == SafetyFrom(m, 0, errs, t)

\* loop(): one polling iteration; errs gives the actuator's answer to each
\* command the iteration may send
loop(m, conn, pin, errs, t) ==
    LET a == handleInitialShutdown(esp_task_wdt_reset(m), conn, errs, t)
        b == handleLedIndicator(a, conn, t)
        c == handleFactoryResetButton(b, pin, t)
    IN  IF c.reboot THEN c ELSE handleSafetyTimeout(c, errs, t)

\* ------------------------------------------------------------- state machine
\* after setup(): statics zero-initialised, LED off, no timers, all mirrors
\* off; conn tells whether the device has joined the network by then
InitWith(conn) ==
    /\ now = 0
    /\ zoneSafetyOffTime = [i \in Zones |-> 0]
    /\ lightState = [i \in Zones |-> FALSE]
    /\ valveOpen = [i \in Zones |-> FALSE]
    /\ connected = conn
    /\ initialShutdownComplete = FALSE
    /\ currentLedState = "UNKNOWN"
    /\ ledPin = LED_OFF
    /\ ledTimer = 0
    /\ buttonPin = "HIGH"
    /\ isButtonBeingHeld = FALSE
    /\ buttonPressStartTime = 0
    /\ checking = NoZone
    /\ elapsed = [i \in Zones |-> 0]
    /\ dropped = FALSE
    /\ budget = MaxRequests
    /\ fired = 0
    /\ last = Note("boot", 0, FALSE, 0)
    /\ events = << >>

\* setup() has returned: the main task is subscribed to the watchdog and
\* enters loop()
SetupDone == stage = "loop" /\ wdtRegistered = TRUE

\* the device starts polling before it has joined the network
Init == InitWith(FALSE) /\ SetupDone

\* the device has joined the network by the time loop() first runs
ZoneInit == InitWith(TRUE) /\ SetupDone

\* power-on: setup() is about to run
BootInit == InitWith(FALSE) /\ stage = "boot" /\ wdtRegistered = FALSE

\* the variables the handlers own take the values of machine state m
Store(m) ==
    /\ zoneSafetyOffTime' = m.timer
    /\ lightState' = m.light
    /\ valveOpen' = m.valve
    /\ elapsed' = m.since
    /\ events' = m.log
    /\ initialShutdownComplete' = m.done
    /\ currentLedState' = m.led
    /\ ledPin' = m.pin
    /\ ledTimer' = m.ledTimer
    /\ isButtonBeingHeld' = m.held
    /\ buttonPressStartTime' = m.pressStart

\* the restart of the device by Zigbee.factoryReset(): setup() runs again, the
\* valves and the button stay as they are
Restart ==
    /\ now' = 0
    /\ zoneSafetyOffTime' = [i \in Zones |-> 0]
    /\ lightState' = [i \in Zones |-> FALSE]
    /\ connected' = FALSE
    /\ initialShutdownComplete' = FALSE
    /\ currentLedState' = "UNKNOWN"
    /\ ledPin' = LED_OFF
    /\ ledTimer' = 0
    /\ isButtonBeingHeld' = FALSE
    /\ buttonPressStartTime' = 0
    /\ checking' = NoZone
    /\ stage' = "loop"
    /\ wdtRegistered' = TRUE
    /\ dropped' = FALSE
    /\ last' = Note("boot", 0, FALSE, 0)
    /\ events' = << >>
    /\ fired' = IF fired < MaxFires THEN fired + 1 ELSE fired
    /\ UNCHANGED << valveOpen, elapsed, buttonPin, budget >>

\* the clock advances by one tick; with timed, the time since each open
\* valve's start is counted too
Advance(timed) ==
    /\ now' = Wrap(now + 1)
    /\ elapsed' = [i \in Zones |->
                     IF timed /\ valveOpen[i] /\ elapsed[i] < ElapsedCap
                     THEN elapsed[i] + 1 ELSE elapsed[i]]
    /\ last' = Note("tick", 0, FALSE, 0)
    /\ events' = << >>
    /\ UNCHANGED << zoneSafetyOffTime, lightState, valveOpen, connected,
                    initialShutdownComplete, currentLedState, ledPin, ledTimer,
                    buttonPin, isButtonBeingHeld, buttonPressStartTime,
                    checking, dropped, budget, fired, stage, wdtRegistered >>

Tick == Advance(FALSE)

TimedTick == Advance(TRUE)

\* the coordinator writes the on/off attribute of zone index: onZone<index>(state)
ZoneRequest(index, state, err) ==
    /\ ZigbeeStarted
    /\ Store(zbAttributeSet(Machine, index, state, err, now))
    /\ last' = Note("request", index, state, err)
    /\ UNCHANGED << now, connected, buttonPin, checking, dropped, fired, stage, wdtRegistered >>

Request ==
    /\ \E index \in Zones, state \in BOOLEAN, err \in ErrCodes :
          ZoneRequest(index, state, err)
    /\ UNCHANGED budget

\* one iteration of loop()
LoopWith(errs) ==
    LET m == loop(Machine, connected, buttonPin, errs, now)
    IN  /\ stage = "loop"
        /\ checking = NoZone
        /\ IF m.reboot
           THEN Restart
           ELSE /\ Store(m)
                /\ last' = Note("loop", 0, FALSE, 0)
                /\ UNCHANGED << now, connected, buttonPin, checking, dropped, budget, fired, stage, wdtRegistered >>

\* the answers the actuator can give in one iteration: one per command the
\* iteration can send (slot i: the first-connect shutdown of zone i, slot
\* NumZones + i: the safety stop of zone i); a slot no command uses is 0
Answers ==
    { errs \in [0 .. (2 * NumZones - 1) -> ErrCodes] :
        \A i \in Zones :
          /\ (~(connected /\ ~initialShutdownComplete)) => errs[i] = 0
          /\ (zoneSafetyOffTime[i] = 0) => errs[NumZones + i] = 0 }

Loop == \E errs \in Answers : LoopWith(errs)

\* the device joins, or rejoins, the network
Connect ==
    /\ ZigbeeStarted
    /\ ~connected
    /\ connected' = TRUE
    /\ last' = Note("connect", 0, FALSE, 0)
    /\ events' = << >>
    /\ UNCHANGED << now, zoneSafetyOffTime, lightState, valveOpen,
                    initialShutdownComplete, currentLedState, ledPin, ledTimer,
                    buttonPin, isButtonBeingHeld, buttonPressStartTime,
                    checking, elapsed, dropped, budget, fired, stage, wdtRegistered >>

\* the device loses the network
Disconnect ==
    /\ connected
    /\ connected' = FALSE
    /\ dropped' = (dropped \/ initialShutdownComplete)
    /\ last' = Note("disconnect", 0, FALSE, 0)
    /\ events' = << >>
    /\ UNCHANGED << now, zoneSafetyOffTime, lightState, valveOpen,
                    initialShutdownComplete, currentLedState, ledPin, ledTimer,
                    buttonPin, isButtonBeingHeld, buttonPressStartTime,
                    checking, elapsed, budget, fired, stage, wdtRegistered >>

Next == Tick \/ Request \/ Loop \/ Connect \/ Disconnect

\* the whole program: clock, network requests, polling loop, joins and losses
Spec == Init /\ [][Next]_vars

\* the device has joined the network by the time loop() first runs and stays
\* joined
ZoneNext == Tick \/ Request \/ Loop

ZoneSpec == ZoneInit /\ [][ZoneNext]_vars

\* the same, with the time since each start counted
TimedNext == TimedTick \/ Request \/ Loop

TimedSpec == ZoneInit /\ [][TimedNext]_vars

\* a run with finitely many network requests in which the clock keeps
\* advancing, the polling loop keeps running, and a safety stop that is due
\* again and again eventually succeeds
LiveRequest ==
    /\ budget > 0
    /\ \E index \in Zones, state \in BOOLEAN, err \in ErrCodes :
          ZoneRequest(index, state, err)
    /\ budget' = budget - 1

NoFailure == [k \in 0 .. (2 * NumZones - 1) |-> 0]

SafetyStopSucceeds(i) ==
    /\ zoneSafetyOffTime[i] # 0
    /\ TimerExpired(now, zoneSafetyOffTime[i])
    /\ LoopWith(NoFailure)

LiveNext == Tick \/ LiveRequest \/ Loop

LiveSpec ==
    /\ ZoneInit
    /\ [][LiveNext]_vars
    /\ WF_vars(Tick)
    /\ WF_vars(Loop)
    /\ \A i \in Zones : SF_vars(SafetyStopSucceeds(i))

\* joins and losses of the network within the first tick after boot
NetNext == Request \/ Loop \/ Connect \/ Disconnect

NetSpec == Init /\ [][NetNext]_vars

\* an iteration of loop() up to the test of zone i in handleSafetyTimeout,
\* which finds the zone's deadline reached; the write is still to come
CheckZone(i, errs) ==
    LET a == handleInitialShutdown(esp_task_wdt_reset(Machine), connected, errs, now)
        b == handleLedIndicator(a, connected, now)
        c == handleFactoryResetButton(b, buttonPin, now)
        d == SafetyBefore(c, i, errs, now)
    IN  /\ stage = "loop"
        /\ checking = NoZone
        /\ ~c.reboot
        /\ d.timer[i] # 0
        /\ TimerExpired(now, d.timer[i])
        /\ Store(d)
        /\ checking' = i
        /\ last' = Note("check", i, FALSE, 0)
        /\ UNCHANGED << now, connected, buttonPin, dropped, budget, fired, stage, wdtRegistered >>

Check == \E i \in Zones : \E errs \in Answers : CheckZone(i, errs)

\* the rest of that iteration: setLight(false) of the zone whose test
\* succeeded, then the zones after it
WriteZone(errs) ==
    LET a == setLight(Machine, checking, FALSE, errs[NumZones + checking], now, "safety")
        b == SafetyFrom(a, checking + 1, errs, now)
    IN  /\ checking # NoZone
        /\ Store(b)
        /\ checking' = NoZone
        /\ last' = Note("resume", checking, FALSE, errs[NumZones + checking])
        /\ UNCHANGED << now, connected, buttonPin, dropped, budget, fired, stage, wdtRegistered >>

\* the answers of the actuator to the commands of the rest of the iteration
WriteAnswers ==
    { errs \in [0 .. (2 * NumZones - 1) -> ErrCodes] :
        \A i \in Zones :
          /\ errs[i] = 0
          /\ (i < checking \/ (i > checking /\ zoneSafetyOffTime[i] = 0))
                => errs[NumZones + i] = 0 }

Write == \E errs \in WriteAnswers : WriteZone(errs)

\* the polling loop with the change callbacks of the Zigbee stack's task
\* running at any point of handleSafetyTimeout, also between the test of a
\* zone and its write
RaceNext == Tick \/ Request \/ Loop \/ Check \/ Write

RaceSpec == ZoneInit /\ [][RaceNext]_vars

\* an iteration of loop() whose call of Zigbee.factoryReset() returns before
\* the restart takes effect: the iteration goes on with handleSafetyTimeout
LoopResetReturns(errs) ==
    LET c == loop(Machine, connected, buttonPin, errs, now)
        d == handleSafetyTimeout([c EXCEPT !.reboot = FALSE], errs, now)
    IN  /\ stage = "loop"
        /\ checking = NoZone
        /\ c.reboot
        /\ fired < MaxFires
        /\ Store(d)
        /\ fired' = fired + 1
        /\ last' = Note("loop", 0, FALSE, 0)
        /\ UNCHANGED << now, connected, buttonPin, checking, dropped, budget, stage, wdtRegistered >>

ResetReturns == \E errs \in Answers : LoopResetReturns(errs)

\* the button goes down: BUTTON_PIN reads LOW
Press ==
    /\ buttonPin = "HIGH"
    /\ buttonPin' = "LOW"
    /\ last' = Note("press", 0, FALSE, 0)
    /\ events' = << >>
    /\ UNCHANGED << now, zoneSafetyOffTime, lightState, valveOpen, connected,
                    initialShutdownComplete, currentLedState, ledPin, ledTimer,
                    isButtonBeingHeld, buttonPressStartTime,
                    checking, elapsed, dropped, budget, fired, stage, wdtRegistered >>

\* the button comes up: BUTTON_PIN reads HIGH
Release ==
    /\ buttonPin = "LOW"
    /\ buttonPin' = "HIGH"
    /\ fired' = 0
    /\ last' = Note("release", 0, FALSE, 0)
    /\ events' = << >>
    /\ UNCHANGED << now, zoneSafetyOffTime, lightState, valveOpen, connected,
                    initialShutdownComplete, currentLedState, ledPin, ledTimer,
                    isButtonBeingHeld, buttonPressStartTime,
                    checking, elapsed, dropped, budget, stage, wdtRegistered >>

\* the polling loop and the factory-reset button
ButtonNext == Tick \/ Loop \/ ResetReturns \/ Press \/ Release

ButtonSpec == ZoneInit /\ [][ButtonNext]_vars

\* a step of setup() from one stage to the next, leaving the watchdog
\* subscription as registered says
SetupStep(from, to, registered, op) ==
    /\ stage = from
    /\ stage' = to
    /\ wdtRegistered' = registered
    /\ last' = Note(op, 0, FALSE, 0)
    /\ events' = << >>
    /\ UNCHANGED << now, zoneSafetyOffTime, lightState, valveOpen, connected,
                    initialShutdownComplete, currentLedState, ledPin, ledTimer,
                    buttonPin, isButtonBeingHeld, buttonPressStartTime,
                    checking, elapsed, dropped, budget, fired >>

\* setup() up to esp_task_wdt_add(NULL): the serial port, the pins, the LED
\* off, the watchdog initialised and the main task subscribed
SetupWatchdog ==
    SetupStep("boot", "watched", esp_task_wdt_add(wdtRegistered), "setup")

\* setup() up to the call of Zigbee.begin(): the endpoints, the callbacks,
\* esp_task_wdt_delete(NULL), and the join is under way
SetupPause ==
    SetupStep("watched", "joining", esp_task_wdt_delete(wdtRegistered), "setup")

\* Zigbee.begin() returns true or false
Join ==
    \E ok \in BOOLEAN :
       SetupStep("joining", IF ok THEN "joined" ELSE "failed", wdtRegistered, "join")

\* setup() after a successful Zigbee.begin(): esp_task_wdt_add(NULL), and
\* setup() returns
SetupResume ==
    SetupStep("joined", "loop", esp_task_wdt_add(wdtRegistered), "setup")

\* setup() after a failed Zigbee.begin(): delay(1000); ESP.restart()
SetupRestart ==
    /\ stage = "failed"
    /\ stage' = "boot"
    /\ wdtRegistered' = FALSE
    /\ now' = 0
    /\ connected' = FALSE
    /\ dropped' = FALSE
    /\ last' = Note("boot", 0, FALSE, 0)
    /\ events' = << >>
    /\ UNCHANGED << zoneSafetyOffTime, lightState, valveOpen,
                    initialShutdownComplete, currentLedState, ledPin, ledTimer,
                    buttonPin, isButtonBeingHeld, buttonPressStartTime,
                    checking, elapsed, budget, fired >>

\* the device from power-on: setup() step by step, then the polling loop,
\* with the clock and the joins and losses of the network
SetupNext ==
    \/ SetupWatchdog \/ SetupPause \/ Join \/ SetupResume \/ SetupRestart
    \/ Tick \/ Loop \/ Connect \/ Disconnect

SetupSpec == BootInit /\ [][SetupNext]_vars

\* ------------------------------------------------------------- observations
\* the places in log ev of the actuator commands for zone i
CmdsOf(ev, i) == { k \in 1 .. Len(ev) : ev[k].ev = "cmd" /\ ev[k].zone = i }

\* the places in log ev of the stop commands for zone i
StopsOf(ev, i) == { k \in CmdsOf(ev, i) : ~ev[k].on }

\* the places in log ev of the engine's own mirror writes made by part by
WritesBy(ev, by) == { k \in 1 .. Len(ev) : ev[k].ev = "write" /\ ev[k].by = by }

\* the places in log ev of the writes of the LED pin
LedWrites(ev) == { k \in 1 .. Len(ev) : ev[k].ev = "led" }

\* zone i's timer is set when the iteration being taken reaches
\* handleLedIndicator: it was set before the iteration, and if the
\* first-connect shutdown runs first, the stop it sent to the zone failed
ActiveAtLed(i) ==
    /\ zoneSafetyOffTime[i] # 0
    /\ (connected /\ ~initialShutdownComplete) =>
          \E k \in StopsOf(events', i) :
             events'[k].by = "shutdown" /\ events'[k].err # 0

\* the safety check of the polling loop finds zone i's deadline reached
DeadlineReached(i) == zoneSafetyOffTime[i] # 0 /\ now >= zoneSafetyOffTime[i]

\* ------------------------------------------------------------- claims
\* C1: an ON request for an idle zone whose start command fails leaves the
\* zone's mirror OFF, no deadline set and the zone idle.
C1_FailedStartForcesMirrorOff ==
    [][\A i \in Zones :
         (/\ zoneSafetyOffTime[i] = 0
          /\ ~valveOpen[i]
          /\ last'.op = "request" /\ last'.index = i
          /\ last'.state /\ last'.err # 0)
         => (/\ lightState'[i] = FALSE
             /\ zoneSafetyOffTime'[i] = 0
             /\ ~valveOpen'[i])]_vars

\* C2: an OFF request for a running zone whose stop command fails leaves the
\* zone's mirror ON and the zone running with its deadline still set.
C2_FailedStopForcesMirrorOn ==
    [][\A i \in Zones :
         (/\ zoneSafetyOffTime[i] # 0
          /\ valveOpen[i]
          /\ last'.op = "request" /\ last'.index = i
          /\ ~last'.state /\ last'.err # 0)
         => (/\ lightState'[i] = TRUE
             /\ zoneSafetyOffTime'[i] = zoneSafetyOffTime[i]
             /\ valveOpen'[i])]_vars

C4_OpenValveIsEventuallyStopped ==
    \A i \in Zones :
       valveOpen[i] ~> (~valveOpen[i] /\ zoneSafetyOffTime[i] = 0)

\* C5: after every engine action the mirror of every zone equals the state
\* of its valve.
C5_MirrorMatchesValve == \A i \in Zones : lightState[i] = valveOpen[i]

\* C6: a start command that succeeds sets the zone's deadline to now plus the
\* timeout (in the counter's arithmetic), and a stop command that succeeds
\* clears the zone's deadline.
C6_DeadlineSetAndCleared ==
    \A k \in 1 .. Len(events) :
       (events[k].ev = "cmd" /\ events[k].err = 0) =>
           IF events[k].on
           THEN zoneSafetyOffTime[events[k].zone] = (now + TimeoutTicks) % TimerModulus
           ELSE zoneSafetyOffTime[events[k].zone] = 0

\* a start has just succeeded at a time where now plus the timeout overflows
\* the counter
C6_Witness ==
    /\ last.op = "request" /\ last.state /\ last.err = 0
    /\ now + TimeoutTicks > TimerModulus
    /\ zoneSafetyOffTime[last.index] = now + TimeoutTicks - TimerModulus

\* C7: while a zone runs, the safety check finds its deadline expired exactly
\* when the timeout has elapsed since the start.
C7_ExpiryMatchesElapsedTime ==
    \A i \in Zones :
       (valveOpen[i] /\ zoneSafetyOffTime[i] # 0 /\ elapsed[i] < ElapsedCap) =>
           (TimerExpired(now, zoneSafetyOffTime[i]) <=> elapsed[i] >= TimeoutTicks)

\* C8: a request that repeats the request just served for the same zone issues
\* no actuator command.
C8_RepeatedRequestIsNoOp ==
    [][(/\ last.op = "request" /\ last'.op = "request"
        /\ last'.index = last.index /\ last'.state = last.state)
       => events' = << >>]_vars

C10_ShutdownRunsOnce ==
    [][/\ last'.op = "loop" =>
            /\ (WritesBy(events', "shutdown") # {})
                   <=> (connected /\ ~initialShutdownComplete)
            /\ (WritesBy(events', "shutdown") # {}) =>
                   \A i \in Zones :
                      \E k \in WritesBy(events', "shutdown") : events'[k].zone = i
            /\ initialShutdownComplete' <=> (initialShutdownComplete \/ connected)
       /\ last'.op # "loop" =>
            /\ WritesBy(events', "shutdown") = {}
            /\ initialShutdownComplete' = initialShutdownComplete]_vars

\* after the shutdown ran, the network was lost and regained, and a polling
\* iteration observed it connected again without running the shutdown
C10_Witness ==
    /\ last.op = "loop"
    /\ connected /\ dropped /\ initialShutdownComplete
    /\ WritesBy(events, "shutdown") = {}

\* C11: when the first-connect shutdown has run in a polling iteration, it
\* has written every zone's mirror OFF whatever the zone was believed to be,
\* and at the end of that iteration every zone's mirror is OFF.
C11_ShutdownTurnsEveryMirrorOff ==
    (last.op = "loop" /\ WritesBy(events, "shutdown") # {}) =>
        /\ \A i \in Zones :
              /\ lightState[i] = FALSE
              /\ \E k \in WritesBy(events, "shutdown") :
                    events[k].zone = i /\ ~events[k].on
        /\ initialShutdownComplete

\* the shutdown has just run with a zone that held a deadline from an ON
\* request served before the first connection was observed: its stop failed,
\* so the deadline is still there and the valve open, and its mirror is OFF
C11_Witness ==
    /\ last.op = "loop"
    /\ WritesBy(events, "shutdown") # {}
    /\ \E i \in Zones :
          /\ zoneSafetyOffTime[i] # 0 /\ valveOpen[i]
          /\ ~lightState[i]

\* C12: between engine actions a zone's deadline is set exactly when a start
\* command for it has succeeded and no stop command for it has succeeded
\* since, that is, exactly when the actuator holds its valve open.
C12_DeadlineSetIffStartOutstanding ==
    \A i \in Zones : (zoneSafetyOffTime[i] # 0) <=> valveOpen[i]

\* C13: a change callback that runs between the deadline test of a zone and
\* the OFF write that follows, and starts that zone afresh with a deadline
\* not yet reached, leaves the zone as either serial order would: running,
\* mirror ON, deadline as the callback set it.
C13_CallbackBetweenTestAndWriteIsSerial ==
    [][\A i \in Zones :
         (/\ checking = i /\ checking' = NoZone
          /\ last.op = "request" /\ last.index = i /\ last.state /\ last.err = 0
          /\ zoneSafetyOffTime[i] # 0 /\ ~DeadlineReached(i))
         => (/\ valveOpen'[i]
             /\ lightState'[i]
             /\ zoneSafetyOffTime'[i] = zoneSafetyOffTime[i])]_vars

\* C14: Zigbee.factoryReset() is called only in an iteration that finds the
\* button held for longer than the hold time, and at most once during one
\* continuous press; an iteration that finds the button up re-arms the
\* detection.
C14_FactoryResetFiresOncePerPress ==
    [][/\ (fired' > fired) =>
             /\ fired = 0
             /\ buttonPin = "LOW" /\ isButtonBeingHeld
             /\ Since(now, buttonPressStartTime) > HoldTicks
       /\ (last'.op = "loop" /\ buttonPin = "HIGH") => ~isButtonBeingHeld']_vars

\* C15: after the evaluation of the status LED in a polling iteration the
\* state is BLINKING if the network is not connected, ZONE_ACTIVE with the LED
\* on if it is connected and some zone's timer is set, CONNECTED_IDLE with the
\* LED off if it is connected and no timer is set; while connected the LED pin
\* is written exactly when the state changes, and then once.
C15_LedShowsConnectionAndZones ==
    [][last'.op = "loop" =>
         /\ ~connected => currentLedState' = "BLINKING"
         /\ (connected /\ \E i \in Zones : ActiveAtLed(i)) =>
               (currentLedState' = "ZONE_ACTIVE" /\ ledPin' = LED_ON)
         /\ (connected /\ ~\E i \in Zones : ActiveAtLed(i)) =>
               (currentLedState' = "CONNECTED_IDLE" /\ ledPin' = LED_OFF)
         /\ connected =>
               /\ (LedWrites(events') # {}) <=> (currentLedState' # currentLedState)
               /\ Cardinality(LedWrites(events')) <= 1]_vars

\* an evaluation has just found the network connected and a timer set while
\* the state was ZONE_ACTIVE already, and has not written the LED
C15_Witness ==
    /\ last.op = "loop"
    /\ connected
    /\ \E i \in Zones : zoneSafetyOffTime[i] # 0 /\ valveOpen[i]
    /\ currentLedState = "ZONE_ACTIVE" /\ ledPin = LED_ON
    /\ LedWrites(events) = {}

\* C16: the main task is not subscribed to the watchdog when Zigbee.begin()
\* is entered nor while it runs; loop() is entered only from a successful
\* Zigbee.begin() and with the task subscribed again; every polling
\* iteration runs subscribed and starts with esp_task_wdt_reset(); after a
\* failed Zigbee.begin() the device restarts and never enters loop().
C16_WatchdogBracketsJoin ==
    [][/\ stage' = "joining" => (~wdtRegistered' /\ stage \in {"watched", "joining"})
       /\ (stage # "loop" /\ stage' = "loop") =>
             (stage = "joined" /\ wdtRegistered')
       /\ stage = "loop" => (stage' = "loop" /\ wdtRegistered /\ wdtRegistered')
       /\ last'.op = "loop" =>
             (/\ stage = "loop" /\ wdtRegistered
              /\ Len(events') > 0 /\ events'[1].ev = "wdt")
       /\ stage = "failed" => stage' \in {"failed", "boot"}]_vars

\* a polling iteration has just run, within the first tick after power-on,
\* and has found the network joined
C16_Witness ==
    /\ last.op = "loop"
    /\ stage = "loop" /\ wdtRegistered
    /\ events[1].ev = "wdt"
    /\ connected /\ now = 0

\* C17: once the first-connect shutdown is over, a polling iteration sends no
\* stop to a running zone whose timeout has not yet elapsed since its start;
\* an iteration that finds the timeout elapsed sends the zone exactly one
\* stop, and if that stop succeeds the iteration ends with the zone's
\* deadline cleared and its mirror OFF.
C17_StopExactlyAtExpiry ==
    [][(last'.op = "loop" /\ initialShutdownComplete) =>
         \A i \in Zones :
            (valveOpen[i] /\ zoneSafetyOffTime[i] # 0 /\ elapsed[i] < ElapsedCap) =>
               IF elapsed[i] < TimeoutTicks
               THEN StopsOf(events', i) = {}
               ELSE /\ Cardinality(StopsOf(events', i)) = 1
                    /\ (\E k \in StopsOf(events', i) : events'[k].err = 0) =>
                          (zoneSafetyOffTime'[i] = 0 /\ ~lightState'[i])]_vars

\* C18: every start command sent to the actuator is the one command of a
\* network ON request for that zone; a polling iteration sends no start, so
\* a start that failed is not tried again until the next ON request.
C18_StartOnlyOnRequest ==
    \A k \in 1 .. Len(events) :
       (events[k].ev = "cmd" /\ events[k].on) =>
          /\ last.op = "request" /\ last.state
          /\ last.index = events[k].zone
          /\ events[k].by = "network"
          /\ events = << Event("cmd", last.index, TRUE, last.err, "network") >>

\* a polling iteration has just run while a zone's mirror is ON after a start
\* that failed, and has sent that zone nothing
C18_Witness ==
    /\ last.op = "loop"
    /\ initialShutdownComplete
    /\ \E i \in Zones :
          /\ lightState[i] /\ ~valveOpen[i] /\ zoneSafetyOffTime[i] = 0
          /\ CmdsOf(events, i) = {}

\* C19: after a start command has succeeded the zone's stored deadline is not
\* the 'no timer' value 0, so isAnyZoneActive() is true and the safety check
\* considers the zone, whatever the counter was at the start.
C19_StartedZoneHasNonzeroDeadline ==
    (last.op = "request" /\ last.state /\ last.err = 0) =>
        /\ zoneSafetyOffTime[last.index] # 0
        /\ isAnyZoneActive(Machine)

\* C20: a step changes the deadline of a zone only if it sent that zone a
\* command that succeeded: a failed command leaves every deadline as it was,
\* and a successful one leaves the deadlines of the other zones as they were.
C20_OnlySuccessfulCommandChangesTimer ==
    [][\A i \in Zones :
         (\A k \in CmdsOf(events', i) : events'[k].err # 0) =>
             zoneSafetyOffTime'[i] = zoneSafetyOffTime[i]]_vars

\* a stop request for a running zone has just failed while another zone runs
\* too, and both deadlines are still set
C20_Witness ==
    /\ last.op = "request" /\ ~last.state /\ last.err # 0
    /\ zoneSafetyOffTime[last.index] # 0
    /\ \E j \in Zones : j # last.index /\ zoneSafetyOffTime[j] # 0

====
